---- MODULE Spec2Model ----
(***************************************************************************)
(* A model of Hyperinstall (src/src/Hyperinstall.js): the install pass     *)
(* installAsync with its per-package tasks, the install lock, the          *)
(* persisted installation state, and the two-level checksum of a local     *)
(* dependency's directory.                                                  *)
(***************************************************************************)
EXTENDS Integers, Sequences, FiniteSets, TLC

(***************************************************************************)
(* Bounds of the model.                                                    *)
(***************************************************************************)
\* number of install passes (one Hyperinstall instance each) in a behaviour
MaxRuns == 3
\* distinct file contents a file of a local dependency may hold
MaxBytes == 2

(***************************************************************************)
(* JavaScript values.  Objects are functions over their own enumerable     *)
(* keys; every leaf is a one-field record tagged with its type, so that    *)
(* equality is type-sensitive (the number 1 is not the string "1").        *)
(***************************************************************************)
Undefined == [undefined |-> TRUE]
Num(n) == [num |-> n]
Str(s) == [str |-> s]
Hex(n) == [hex |-> n]
\* a Promise object: it has no own enumerable properties
PromiseObject == [promise |-> TRUE]
\* what reading a file yields when it does not exist (ENOENT) or does not parse
Absent == [absent |-> TRUE]
Malformed == [malformed |-> TRUE]
EmptyObject == [k \in {} |-> Undefined]

IsObject(v) == v \notin {Undefined, PromiseObject, Absent, Malformed}

\* obj[k], undefined when obj is undefined or has no such key (lodash get)
Get(obj, k) == IF IsObject(obj) /\ k \in DOMAIN obj THEN obj[k] ELSE Undefined

\* Object.assign(target, src): src's keys override; an undefined src is skipped
ObjectAssign(target, src) ==
    IF ~IsObject(src) THEN target
    ELSE [k \in (DOMAIN target) \cup (DOMAIN src) |->
            IF k \in DOMAIN src THEN src[k] ELSE target[k]]

\* {...v}: the own enumerable properties of v; a Promise has none
ObjectSpread(v) == IF IsObject(v) THEN v ELSE EmptyObject

\* lodash isEqual: deep, key-order-independent, type-sensitive equality
IsEqual(a, b) == a = b

\* JS truthiness of an object-or-undefined value
Truthy(v) == v # Undefined

\* JSON.parse(JSON.stringify(obj)) of a flat object: keys whose value is
\* undefined are not written
JSONObject(obj) == [k \in {j \in DOMAIN obj : obj[j] # Undefined} |-> obj[k]]

\* JSON.parse(JSON.stringify(state)) of the installation state
JSONState(st) ==
    [k \in DOMAIN JSONObject(st) |->
        IF k = "packages"
        THEN [n \in DOMAIN st.packages |-> JSONObject(st.packages[n])]
        ELSE st[k]]

(***************************************************************************)
(* The checksum of a directory (readPackageChecksumAsync).  A directory is *)
(* a function from relative file paths to contents; a digest is a number   *)
(* (a fixed-width hex string, ordered as sortBy orders it).                *)
(***************************************************************************)
FilePaths == {"index.js", "lib.js", "README.md"}
Bytes == 1..MaxBytes
Directories == [FilePaths -> Bytes]

\* readFileChecksumAsync: sha1 of the contents, injective, not monotone
ReadFileChecksum(contents) == (contents * 3) % 7

\* insert d into the ascending sequence s, after the elements equal to it
RECURSIVE InsertSorted(_, _)
InsertSorted(d, s) ==
    IF s = <<>> THEN <<d>>
    ELSE IF d < Head(s) THEN <<d>> \o s
    ELSE <<Head(s)>> \o InsertSorted(d, Tail(s))

RECURSIVE SortFrom(_, _)
SortFrom(s, acc) ==
    IF s = <<>> THEN acc ELSE SortFrom(Tail(s), InsertSorted(Head(s), acc))

\* a bug that would hash the digests in the order the object lists them
SortBy_unsorted(s) == s

\* lodash sortBy over the object's values: a stable ascending sort
SortBy(s) == SortFrom(s, <<>>)

\* sha1 over the concatenated digests: injective on digest sequences
RECURSIVE HashDigests(_, _)
HashDigests(s, acc) ==
    IF s = <<>> THEN acc ELSE HashDigests(Tail(s), acc * 7 + Head(s))

\* the digest resolved by the 'end' handler, given the file checksums as the
\* sequence of the object's values in its key order
ChecksumOfValues(values) == HashDigests(SortBy(values), 1)

\* the sequences that list every element of S once
Orders(S) == {s \in [1..Cardinality(S) -> S] : \A x \in S : \E i \in DOMAIN s : s[i] = x}

\* readPackageChecksumAsync of a directory, the stream emitting in one order
ReadPackageChecksum(dir) ==
    LET order == CHOOSE s \in Orders(DOMAIN dir) : TRUE
    IN  ChecksumOfValues([i \in DOMAIN order |-> ReadFileChecksum(dir[order[i]])])

(***************************************************************************)
(* The workspace on disk.                                                  *)
(***************************************************************************)
\* Global cache breaker to force updating all packages
CACHE_BREAKER == 0

Packages == {"pkgA", "pkgB"}
\* cache-breaker tokens of hyperinstall.json: arbitrary JSON values
Tokens == {Num(1), Num(2), Str("1")}

\* package.json files: dependencies and devDependencies
PlainManifest ==
    [dependencies |-> ("lodash" :> Str("^4.0.0")),
     devDependencies |-> ("lodash" :> Str("^3.0.0") @@ "mocha" :> Str("^2.0.0"))]
LocalManifest ==
    [dependencies |-> ("lodash" :> Str("^4.0.0") @@ "sibling" :> Str("file:../sibling"))]
ManifestsOf(p) == {Absent, PlainManifest, LocalManifest}

\* npm-shrinkwrap.json, when there is one
Lockfile == [lockfileVersion |-> Num(1)]
ShrinkwrapsOf(p) == {Absent, Lockfile}

\* the two contents of the local dependency ../sibling
SiblingBefore == [f \in FilePaths |-> 1]
SiblingAfter == [f \in FilePaths |-> IF f = "lib.js" THEN 2 ELSE 1]

\* a state file written by a build with another CACHE_BREAKER: pkgB's entry is
\* the fingerprint PlainManifest has now, pkgOld is no longer declared
StaleState ==
    [cacheBreaker |-> Num(CACHE_BREAKER + 1),
     packages |->
        ("pkgB" :> [dependencies |-> ("lodash" :> Str("^3.0.0") @@ "mocha" :> Str("^2.0.0")),
                    unversionedDependencyChecksums |-> EmptyObject,
                    cacheBreaker |-> Num(1)]
         @@ "pkgOld" :> [dependencies |-> EmptyObject,
                         unversionedDependencyChecksums |-> EmptyObject,
                         cacheBreaker |-> Num(1)])]

VARIABLES
    \* the workspace on disk
    stateFile,          \* .hyperinstall-state.json, as JSON.parse reads it
    configFile,         \* hyperinstall.json
    manifest,           \* package.json of each package
    shrinkwrapFile,     \* npm-shrinkwrap.json of each package
    siblingDir,         \* the files of the local dependency
    \* the Hyperinstall instance
    forceInstallation, state, updatedPackages, installLock,
    \* installAsync and its per-package tasks
    pc,                 \* "idle", "running", "done", "failed", "crashed"
    packages,           \* the package list installAsync read
    tpc,                \* where each package's task is
    arg,                \* the packageInstallationState each task holds
    detached,           \* the fingerprint promise the reset path never awaits
    active,             \* packages whose execNpmInstallAsync is running
    cwd,                \* the process working directory: the root or a package
    removing,           \* packages whose removeNodeModulesDirAsync is running
    \* history of the pass
    runs, edited, cleanThrew, startFile, stepFailed, invoked, removed, lastGood,
    writes,             \* writes of the state file in this pass
    \* one readPackageChecksumAsync call
    ckDir, ckKeys, ckSettled, ckEnded, ckDigest

diskVars == <<stateFile, configFile, manifest, shrinkwrapFile, siblingDir>>
instanceVars == <<forceInstallation, state, updatedPackages, installLock>>
taskVars == <<pc, packages, tpc, arg, detached, active, cwd, removing>>
historyVars == <<runs, edited, cleanThrew, startFile, stepFailed, invoked, removed, lastGood,
                 writes>>
checksumVars == <<ckDir, ckKeys, ckSettled, ckEnded, ckDigest>>
vars == <<diskVars, instanceVars, taskVars, historyVars, checksumVars>>

(***************************************************************************)
(* Reading the workspace.  A read that throws yields Malformed.            *)
(***************************************************************************)
\* a bug that would start over from the empty state on a parse error too
ReadInstallationState_resetsCorrupt ==
    IF stateFile \in {Absent, Malformed} THEN EmptyObject ELSE stateFile

\* readInstallationStateAsync: ENOENT is the empty state, a parse error throws
ReadInstallationState == IF stateFile = Absent THEN EmptyObject ELSE stateFile

\* readPackageListAsync: ENOENT is the empty list, a parse error throws
ReadPackageList == IF configFile = Absent THEN EmptyObject ELSE configFile

\* readShrinkwrapAsync: ENOENT is undefined
ReadShrinkwrap(name) ==
    IF shrinkwrapFile[name] = Absent THEN Undefined ELSE shrinkwrapFile[name]

\* readPackageDepsAsync: dependencies, then devDependencies over them; a
\* missing or unparsable package.json throws
ReadPackageDeps(name) ==
    IF manifest[name] \in {Absent, Malformed} THEN Malformed
    ELSE ObjectAssign(ObjectAssign(EmptyObject, Get(manifest[name], "dependencies")),
                      Get(manifest[name], "devDependencies"))

\* npm-package-arg's descriptor type of `${dep}@${version}`
NpmPackageArgType(version) == IF version = Str("file:../sibling") THEN "local" ELSE "range"

\* filterLocalDeps: the dependencies whose descriptor is local
FilterLocalDeps(name, deps) ==
    [d \in {e \in DOMAIN deps : NpmPackageArgType(deps[e]) = "local"} |-> deps[d]]

\* readUnversionedDepChecksumsAsync: the checksum of each local dependency
ReadUnversionedDepChecksums(name, deps) ==
    [d \in DOMAIN FilterLocalDeps(name, deps) |-> Hex(ReadPackageChecksum(siblingDir))]

\* readPackageInstallationState: the fingerprint, or Malformed when a read throws
ReadPackageInstallationState(name) ==
    LET deps == ReadPackageDeps(name)
        shrinkwrap == ReadShrinkwrap(name)
    IN  IF deps = Malformed \/ shrinkwrap = Malformed THEN Malformed
        ELSE [dependencies |-> deps,
              unversionedDependencyChecksums |-> ReadUnversionedDepChecksums(name, deps),
              shrinkwrap |-> shrinkwrap]

\* packageNeedsUpdate, with the five parameters it declares
PackageNeedsUpdate(name, cacheBreaker, deps, unversionedDepChecksums, shrinkwrap) ==
    LET packageState == Get(Get(state, "packages"), name)
    IN  IF ~Truthy(packageState) \/ Get(packageState, "cacheBreaker") # cacheBreaker
        THEN TRUE
        ELSE IF Truthy(shrinkwrap) /\ IsEqual(shrinkwrap, Get(packageState, "shrinkwrap"))
        THEN TRUE
        ELSE IF ~IsEqual(deps, Get(packageState, "dependencies"))
        THEN TRUE
        ELSE ~IsEqual(unversionedDepChecksums,
                      Get(packageState, "unversionedDependencyChecksums"))

\* the call in updatePackageIfNeededAsync: it passes three arguments, so deps
\* is the whole fingerprint and the last two parameters are undefined
NeedsUpdateCall(name, cacheBreaker, packageInstallationState) ==
    PackageNeedsUpdate(name, cacheBreaker, packageInstallationState, Undefined, Undefined)

\* the entry updatePackageAsync records: {...packageInstallationState, cacheBreaker}
UpdatedEntry(packageInstallationState, cacheBreaker) ==
    ObjectAssign(ObjectSpread(packageInstallationState), [cacheBreaker |-> cacheBreaker])

\* a bug that would keep the entries of packages no longer declared
MergedPackages_unpruned(st, updated, pkgs) ==
    ObjectAssign(ObjectAssign(EmptyObject, Get(st, "packages")), updated)

\* a bug that would write this pass's entries alone
MergedPackages_onlyUpdated(st, updated, pkgs) ==
    [n \in {m \in DOMAIN updated : m \in DOMAIN pkgs} |-> updated[n]]

\* installAsync's merge: the old entries overridden by this pass's, then the
\* entries of packages that are not declared deleted
MergedPackages(st, updated, pkgs) ==
    LET merged == ObjectAssign(ObjectAssign(EmptyObject, Get(st, "packages")), updated)
    IN  [n \in {m \in DOMAIN merged : m \in DOMAIN pkgs} |-> merged[n]]

\* the state installAsync writes
NewState(st, updated, pkgs) ==
    ObjectAssign(st, [cacheBreaker |-> Num(CACHE_BREAKER),
                      packages |-> MergedPackages(st, updated, pkgs)])

\* state.cacheBreaker !== CACHE_BREAKER: the branch that installs every package
IsResetPath(st) == Get(st, "cacheBreaker") # Num(CACHE_BREAKER)

\* a bug that would let the reset path skip a package that has a recorded entry
TaskStart_skipsRecorded(st, pkgs, p) ==
    IF p \notin DOMAIN pkgs THEN "none"
    ELSE IF ~IsResetPath(st) THEN "read"
    ELSE IF Get(Get(st, "packages"), p) = Undefined THEN "acquire"
    ELSE "done"

\* where installAsync starts package p's task: on the reset path in
\* updatePackageAsync, else in updatePackageIfNeededAsync
TaskStart(st, pkgs, p) ==
    IF p \notin DOMAIN pkgs THEN "none"
    ELSE IF IsResetPath(st) THEN "acquire"
    ELSE "read"

\* a bug that would install in force mode without removing node_modules
AfterFingerprint_noRemoval(p, fp) ==
    IF forceInstallation \/ NeedsUpdateCall(p, packages[p], fp) THEN "acquire" ELSE "done"

\* updatePackageIfNeededAsync once the fingerprint is read: force mode removes
\* node_modules first, else the change detector decides
AfterFingerprint(p, fp) ==
    IF forceInstallation THEN "rimraf"
    ELSE IF NeedsUpdateCall(p, packages[p], fp) THEN "acquire"
    ELSE "done"

\* a bug that would call updatePackageAsync without awaiting the removal
ReadyToInstall_removalNotAwaited(p) == tpc[p] \in {"acquire", "rimraf"}

\* the task has called updatePackageAsync: in force mode only after
\* removeNodeModulesDirAsync was awaited
ReadyToInstall(p) == tpc[p] = "acquire"

\* a bug that would release the lock after a successful install only
LockAfterExec_noFinally(ok) == ~ok

\* a bug that would release the lock on the error path only
LockAfterExec_heldOnSuccess(ok) == ok

\* whether the lock is held once execNpmInstallAsync has settled: the finally
\* block releases it on both paths
LockAfterExec(ok) == FALSE

\* a bug that would start the install without waiting for the lock
CanAcquire_unlocked == TRUE

\* AwaitLock: acquireAsync resolves only while the lock is not acquired
CanAcquire == ~installLock

(***************************************************************************)
(* Initial states: a constructed Hyperinstall over a workspace.            *)
(***************************************************************************)
\* the working directory the process is started in
Root == "root"

NoTasks ==
    /\ packages = EmptyObject
    /\ tpc = [p \in Packages |-> "none"]
    /\ arg = [p \in Packages |-> Undefined]
    /\ detached = [p \in Packages |-> "none"]
    /\ active = {}
    /\ cwd = Root
    /\ removing = {}

\* the constructor
Constructed ==
    /\ forceInstallation = FALSE
    /\ state = EmptyObject
    /\ updatedPackages = EmptyObject
    /\ installLock = FALSE

NoHistory ==
    /\ runs = 1
    /\ edited = FALSE
    /\ cleanThrew = FALSE
    /\ startFile = stateFile
    /\ stepFailed = FALSE
    /\ invoked = [p \in Packages |-> 0]
    /\ removed = {}
    /\ lastGood = Undefined
    /\ writes = 0

NoChecksum ==
    /\ ckDir = SiblingBefore
    /\ ckKeys = <<>>
    /\ ckSettled = <<>>
    /\ ckEnded = FALSE
    /\ ckDigest = Undefined

Init ==
    /\ stateFile \in {Absent, Malformed, StaleState}
    /\ configFile \in {Absent, Malformed, [p \in Packages |-> Num(1)]}
    /\ manifest \in {m \in [Packages -> {Absent, PlainManifest, LocalManifest}] :
                        \A p \in Packages : m[p] \in ManifestsOf(p)}
    /\ shrinkwrapFile \in {f \in [Packages -> {Absent, Lockfile}] :
                        \A p \in Packages : f[p] \in ShrinkwrapsOf(p)}
    /\ siblingDir = SiblingBefore
    /\ pc = "idle"
    /\ Constructed
    /\ NoTasks
    /\ NoHistory
    /\ NoChecksum

(***************************************************************************)
(* installAsync.                                                           *)
(***************************************************************************)
\* the process is alive and its tasks still run (a rejected pass does not
\* stop the tasks Promise.all was waiting for)
Alive == pc \in {"running", "failed"}

\* no synchronous section is running: filterLocalDeps has restored the
\* working directory
Unwound == cwd = Root

\* a task of the pass throws: Promise.all rejects and installAsync with it
Rejected == IF pc = "running" THEN "failed" ELSE pc

\* the caller sets forceInstallation before it runs the pass
SetForceInstallation ==
    /\ pc = "idle"
    /\ ~forceInstallation
    /\ forceInstallation' = TRUE
    /\ UNCHANGED <<diskVars, state, updatedPackages, installLock, taskVars,
                   historyVars, checksumVars>>

\* installAsync up to its first awaits on the per-package tasks: both files
\* are read, then every package's task is started
InstallAsync ==
    /\ pc = "idle"
    /\ startFile' = stateFile
    /\ edited' = FALSE
    /\ cleanThrew' = FALSE
    /\ IF ReadInstallationState = Malformed \/ ReadPackageList = Malformed
       THEN /\ pc' = "failed"
            /\ stepFailed' = TRUE
            /\ UNCHANGED <<state, packages, tpc, arg, detached>>
       ELSE /\ pc' = "running"
            /\ state' = ReadInstallationState
            /\ packages' = ReadPackageList
            /\ UNCHANGED stepFailed
            /\ IF IsResetPath(ReadInstallationState)
               THEN \* readPackageInstallationState(name) is not awaited: the
                    \* task goes on to updatePackageAsync holding the promise
                    /\ tpc' = [p \in Packages |->
                                TaskStart(ReadInstallationState, ReadPackageList, p)]
                    /\ arg' = [p \in Packages |->
                                IF p \in DOMAIN ReadPackageList THEN PromiseObject
                                ELSE Undefined]
                    /\ detached' = [p \in Packages |->
                                IF p \in DOMAIN ReadPackageList THEN "pending" ELSE "none"]
               ELSE /\ tpc' = [p \in Packages |->
                                TaskStart(ReadInstallationState, ReadPackageList, p)]
                    /\ UNCHANGED <<arg, detached>>
    /\ UNCHANGED <<diskVars, forceInstallation, updatedPackages, installLock, active,
                   cwd, removing, runs, invoked, removed, lastGood, writes,
                   checksumVars>>

\* filterLocalDeps, entered once the manifest and the lockfile are read:
\* process.chdir(packagePath).  The function is synchronous: nothing else
\* runs until its finally block has changed the directory back
FilterLocalDepsChdir(p) ==
    /\ Unwound
    /\ \/ Alive /\ tpc[p] = "read"
       \/ pc = "running" /\ detached[p] = "pending"
    /\ ReadPackageDeps(p) # Malformed
    /\ ReadShrinkwrap(p) # Malformed
    /\ cwd' = p
    /\ UNCHANGED <<diskVars, instanceVars, pc, packages, tpc, arg, detached, active,
                   removing, historyVars, checksumVars>>

\* updatePackageIfNeededAsync up to the call of updatePackageAsync: the
\* fingerprint is read, then force mode or the change detector decides
UpdatePackageIfNeeded(p) ==
    /\ Alive
    /\ tpc[p] = "read"
    /\ LET fp == ReadPackageInstallationState(p)
       IN  IF fp = Malformed
           THEN /\ Unwound
                /\ tpc' = [tpc EXCEPT ![p] = "failed"]
                /\ pc' = Rejected
                /\ stepFailed' = TRUE
                /\ UNCHANGED <<arg, cwd, removing>>
           ELSE /\ cwd = p
                /\ cwd' = Root
                /\ arg' = [arg EXCEPT ![p] = fp]
                /\ tpc' = [tpc EXCEPT ![p] = AfterFingerprint(p, fp)]
                /\ removing' = IF AfterFingerprint(p, fp) = "rimraf"
                               THEN removing \cup {p} ELSE removing
                /\ UNCHANGED <<pc, stepFailed>>
    /\ UNCHANGED <<diskVars, instanceVars, packages, detached, active,
                   runs, edited, cleanThrew, startFile, invoked, removed, lastGood,
                   writes, checksumVars>>

\* removeNodeModulesDirAsync completes; updatePackageAsync is called next
RemoveNodeModulesDir(p) ==
    /\ Alive
    /\ Unwound
    /\ p \in removing
    /\ removing' = removing \ {p}
    /\ removed' = removed \cup {p}
    /\ tpc' = [tpc EXCEPT ![p] = IF @ = "rimraf" THEN "acquire" ELSE @]
    /\ UNCHANGED <<diskVars, instanceVars, pc, packages, arg, detached, active, cwd,
                   runs, edited, cleanThrew, startFile, stepFailed, invoked, lastGood,
                   writes, checksumVars>>

\* updatePackageAsync: the lock is acquired and execNpmInstallAsync started
AcquireAndExec(p) ==
    /\ Alive
    /\ Unwound
    /\ ReadyToInstall(p)
    /\ CanAcquire
    /\ installLock' = TRUE
    /\ tpc' = [tpc EXCEPT ![p] = "exec"]
    /\ active' = active \cup {p}
    /\ invoked' = [invoked EXCEPT ![p] = @ + 1]
    /\ UNCHANGED <<diskVars, forceInstallation, state, updatedPackages, pc, packages,
                   arg, detached, cwd, removing, runs, edited, cleanThrew, startFile,
                   stepFailed, removed, lastGood, writes, checksumVars>>

\* updatePackageAsync: npm install exits; the finally block releases the lock,
\* then the entry is recorded, or the error propagates
ExecExit(p, ok) ==
    /\ Alive
    /\ Unwound
    /\ tpc[p] = "exec"
    /\ active' = active \ {p}
    /\ installLock' = LockAfterExec(ok)
    /\ IF ok
       THEN /\ updatedPackages' =
                   ObjectAssign(updatedPackages, (p :> UpdatedEntry(arg[p], packages[p])))
            /\ tpc' = [tpc EXCEPT ![p] = "done"]
            /\ UNCHANGED <<pc, stepFailed>>
       ELSE /\ tpc' = [tpc EXCEPT ![p] = "failed"]
            /\ pc' = Rejected
            /\ stepFailed' = TRUE
            /\ UNCHANGED updatedPackages
    /\ UNCHANGED <<diskVars, forceInstallation, state, packages, arg, detached,
                   cwd, removing, runs, edited, cleanThrew, startFile, invoked, removed,
                   lastGood, writes, checksumVars>>

\* npm install exits with status 0 or with another status
ExecFinished(p) == \E ok \in BOOLEAN : ExecExit(p, ok)

\* the fingerprint promise of the reset path settles.  Nothing awaits it: a
\* rejection is an unhandled rejection, which the runtime reports and ignores
\* or ends the process with
DetachedSettles(p) ==
    /\ pc = "running"
    /\ detached[p] = "pending"
    /\ IF ReadPackageInstallationState(p) = Malformed
       THEN /\ Unwound
            /\ detached' = [detached EXCEPT ![p] = "rejected"]
            /\ stepFailed' = TRUE
            /\ \E ends \in BOOLEAN : pc' = IF ends THEN "crashed" ELSE pc
            /\ UNCHANGED cwd
       ELSE /\ cwd = p
            /\ cwd' = Root
            /\ detached' = [detached EXCEPT ![p] = "resolved"]
            /\ UNCHANGED <<pc, stepFailed>>
    /\ UNCHANGED <<diskVars, instanceVars, packages, tpc, arg, active, removing,
                   runs, edited, cleanThrew, startFile, invoked, removed, lastGood,
                   writes, checksumVars>>

\* installAsync after Promise.all resolves: the summary, the merge, the write
WriteState ==
    /\ pc = "running"
    /\ Unwound
    /\ writes' = writes + 1
    /\ \A p \in DOMAIN packages : tpc[p] = "done"
    /\ state' = NewState(state, updatedPackages, packages)
    /\ stateFile' = JSONState(NewState(state, updatedPackages, packages))
    /\ pc' = "done"
    /\ lastGood' = [config |-> configFile, manifest |-> manifest,
                    shrinkwrap |-> shrinkwrapFile, sibling |-> siblingDir,
                    file |-> JSONState(NewState(state, updatedPackages, packages))]
    /\ UNCHANGED <<configFile, manifest, shrinkwrapFile, siblingDir,
                   forceInstallation, updatedPackages, installLock,
                   packages, tpc, arg, detached, active, cwd, removing,
                   runs, edited, cleanThrew, startFile, stepFailed, invoked, removed,
                   checksumVars>>

\* the process is over; the next pass is run by a new Hyperinstall
NewInstance ==
    /\ pc \in {"done", "failed", "crashed"}
    /\ runs < MaxRuns
    /\ runs' = runs + 1
    /\ pc' = "idle"
    /\ forceInstallation' = FALSE
    /\ state' = EmptyObject
    /\ updatedPackages' = EmptyObject
    /\ installLock' = FALSE
    /\ packages' = EmptyObject
    /\ tpc' = [p \in Packages |-> "none"]
    /\ arg' = [p \in Packages |-> Undefined]
    /\ detached' = [p \in Packages |-> "none"]
    /\ active' = {}
    /\ cwd' = Root
    /\ removing' = {}
    /\ writes' = 0
    /\ stepFailed' = FALSE
    /\ invoked' = [p \in Packages |-> 0]
    /\ removed' = {}
    /\ UNCHANGED <<diskVars, edited, cleanThrew, startFile, lastGood, checksumVars>>

(***************************************************************************)
(* Between two passes: cleanAsync, and edits of the workspace.             *)
(***************************************************************************)
\* cleanAsync: unlink of the state file; ENOENT is not caught
CleanAsync ==
    /\ pc = "idle"
    /\ runs > 1
    /\ ~edited
    /\ edited' = TRUE
    /\ cleanThrew' = (stateFile = Absent)
    /\ stateFile' = Absent
    /\ UNCHANGED <<configFile, manifest, shrinkwrapFile, siblingDir, instanceVars,
                   taskVars, runs, startFile, stepFailed, invoked, removed, lastGood,
                   writes, checksumVars>>

EditIdle ==
    /\ pc = "idle"
    /\ runs > 1
    /\ ~edited
    /\ IsObject(configFile)
    /\ edited' = TRUE

\* one package's cache breaker is changed in hyperinstall.json
EditToken(p, t) ==
    /\ EditIdle
    /\ p \in DOMAIN configFile
    /\ configFile[p] # t
    /\ configFile' = [configFile EXCEPT ![p] = t]
    /\ UNCHANGED <<stateFile, manifest, shrinkwrapFile, siblingDir, instanceVars,
                   taskVars, runs, cleanThrew, startFile, stepFailed, invoked, removed,
                   lastGood, writes, checksumVars>>

\* one package is removed from hyperinstall.json
RemovePackage(p) ==
    /\ EditIdle
    /\ p \in DOMAIN configFile
    /\ configFile' = [q \in (DOMAIN configFile) \ {p} |-> configFile[q]]
    /\ UNCHANGED <<stateFile, manifest, shrinkwrapFile, siblingDir, instanceVars,
                   taskVars, runs, cleanThrew, startFile, stepFailed, invoked, removed,
                   lastGood, writes, checksumVars>>

\* a file of the local dependency is changed
EditSibling ==
    /\ EditIdle
    /\ siblingDir' = IF siblingDir = SiblingBefore THEN SiblingAfter ELSE SiblingBefore
    /\ UNCHANGED <<stateFile, configFile, manifest, shrinkwrapFile, instanceVars,
                   taskVars, runs, cleanThrew, startFile, stepFailed, invoked, removed,
                   lastGood, writes, checksumVars>>

Next ==
    \/ SetForceInstallation
    \/ InstallAsync
    \/ \E p \in Packages : FilterLocalDepsChdir(p)
    \/ \E p \in Packages : UpdatePackageIfNeeded(p)
    \/ \E p \in Packages : RemoveNodeModulesDir(p)
    \/ \E p \in Packages : AcquireAndExec(p)
    \/ \E p \in Packages : ExecFinished(p)
    \/ \E p \in Packages : DetachedSettles(p)
    \/ WriteState
    \/ NewInstance
    \/ CleanAsync
    \/ \E p \in Packages, t \in Tokens : EditToken(p, t)
    \/ \E p \in Packages : RemovePackage(p)
    \/ EditSibling

Spec == Init /\ [][Next]_vars

(***************************************************************************)
(* The passes in which nothing fails: both files parse, every manifest is  *)
(* readable, and every npm install exits with status 0.  The order in      *)
(* which the tasks get the lock does not depend on what a fingerprint      *)
(* holds, so the packages have the manifest without local dependencies.    *)
(***************************************************************************)
InitProgress ==
    /\ Init
    /\ stateFile # Malformed
    /\ configFile # Malformed
    /\ \A p \in Packages : manifest[p] = PlainManifest

\* execNpmInstallAsync resolves
ExecSucceeds(p) == ExecExit(p, TRUE)

\* a step of a running pass: a continuation that the event loop runs once
\* the read, the removal, the lock or the child process it awaits is ready
PassStep ==
    \/ \E p \in Packages : FilterLocalDepsChdir(p)
    \/ \E p \in Packages : UpdatePackageIfNeeded(p)
    \/ \E p \in Packages : RemoveNodeModulesDir(p)
    \/ \E p \in Packages : AcquireAndExec(p)
    \/ \E p \in Packages : ExecSucceeds(p)
    \/ \E p \in Packages : DetachedSettles(p)
    \/ WriteState

NextProgress ==
    \/ SetForceInstallation
    \/ InstallAsync
    \/ PassStep
    \/ NewInstance
    \/ CleanAsync
    \/ \E p \in Packages, t \in Tokens : EditToken(p, t)
    \/ \E p \in Packages : RemovePackage(p)
    \/ EditSibling

\* the event loop does not stop while a continuation is ready; which of the
\* ready continuations runs next, and which waiter gets the lock, is left open
SpecProgress == InitProgress /\ [][NextProgress]_vars /\ WF_vars(PassStep)

(***************************************************************************)
(* The passes that start from a state file in which pkgB's entry is one    *)
(* that packageNeedsUpdate, as updatePackageIfNeededAsync calls it, takes  *)
(* for current: the key dependencies holds the whole fingerprint of        *)
(* PlainManifest with Lockfile.  No pass writes such an entry; the file is *)
(* written by hand.                                                        *)
(***************************************************************************)
HandWrittenState ==
    [cacheBreaker |-> Num(CACHE_BREAKER),
     packages |->
        ("pkgA" :> [dependencies |-> ("lodash" :> Str("^3.0.0") @@ "mocha" :> Str("^2.0.0")),
                    unversionedDependencyChecksums |-> EmptyObject,
                    cacheBreaker |-> Num(1)]
         @@ "pkgB" :> [dependencies |->
                            [dependencies |->
                                ("lodash" :> Str("^3.0.0") @@ "mocha" :> Str("^2.0.0")),
                             unversionedDependencyChecksums |-> EmptyObject,
                             shrinkwrap |-> Lockfile],
                       cacheBreaker |-> Num(1)])]

InitCarryOver ==
    /\ stateFile = HandWrittenState
    /\ configFile = [p \in Packages |-> Num(1)]
    /\ manifest \in {m \in [Packages -> {Absent, PlainManifest, LocalManifest}] :
                        \A p \in Packages : m[p] \in ManifestsOf(p)}
    /\ shrinkwrapFile \in {f \in [Packages -> {Absent, Lockfile}] :
                        \A p \in Packages : f[p] \in ShrinkwrapsOf(p)}
    /\ siblingDir = SiblingBefore
    /\ pc = "idle"
    /\ Constructed
    /\ NoTasks
    /\ NoHistory
    /\ NoChecksum

SpecCarryOver == InitCarryOver /\ [][Next]_vars

(***************************************************************************)
(* One call of readPackageChecksumAsync, event by event.                   *)
(***************************************************************************)
Range(s) == {s[i] : i \in DOMAIN s}

InitChecksum ==
    /\ stateFile = Absent
    /\ configFile = Absent
    /\ manifest = [p \in Packages |-> Absent]
    /\ shrinkwrapFile = [p \in Packages |-> Absent]
    /\ siblingDir = SiblingBefore
    /\ pc = "idle"
    /\ Constructed
    /\ NoTasks
    /\ NoHistory
    /\ ckDir \in Directories
    /\ ckKeys = <<>>
    /\ ckSettled = <<>>
    /\ ckEnded = FALSE
    /\ ckDigest = Undefined

\* the 'child' handler: the file's hash is started and stored under its path
Child(path) ==
    /\ ~ckEnded
    /\ path \notin Range(ckKeys)
    /\ ckKeys' = Append(ckKeys, path)
    /\ UNCHANGED <<diskVars, instanceVars, taskVars, historyVars,
                   ckDir, ckSettled, ckEnded, ckDigest>>

\* readFileChecksumAsync of one file resolves
FileChecksumResolves(path) ==
    /\ path \in Range(ckKeys)
    /\ path \notin Range(ckSettled)
    /\ ckSettled' = Append(ckSettled, path)
    /\ UNCHANGED <<diskVars, instanceVars, taskVars, historyVars,
                   ckDir, ckKeys, ckEnded, ckDigest>>

\* the 'end' event, once the stream has emitted every included file
End ==
    /\ ~ckEnded
    /\ Range(ckKeys) = DOMAIN ckDir
    /\ ckEnded' = TRUE
    /\ UNCHANGED <<diskVars, instanceVars, taskVars, historyVars,
                   ckDir, ckKeys, ckSettled, ckDigest>>

\* the 'end' handler after promiseProps: the object's values, in the order
\* its keys were inserted or in the order the hashes resolved, are sorted
\* and hashed
ResolveChecksum ==
    /\ ckEnded
    /\ Range(ckSettled) = Range(ckKeys)
    /\ ckDigest = Undefined
    /\ \E order \in {ckKeys, ckSettled} :
        ckDigest' = Hex(ChecksumOfValues(
                        [i \in DOMAIN order |-> ReadFileChecksum(ckDir[order[i]])]))
    /\ UNCHANGED <<diskVars, instanceVars, taskVars, historyVars,
                   ckDir, ckKeys, ckSettled, ckEnded>>

NextChecksum ==
    \/ \E path \in FilePaths : Child(path)
    \/ \E path \in FilePaths : FileChecksumResolves(path)
    \/ End
    \/ ResolveChecksum

SpecChecksum == InitChecksum /\ [][NextChecksum]_vars

(***************************************************************************)
(* The claims.                                                             *)
(***************************************************************************)
\* the packages whose install was invoked in this pass
Invoked == {p \in Packages : invoked[p] > 0}

\* the pass is over, one way or the other
Ended == pc \in {"done", "failed", "crashed"}

\* every task of the pass has completed: installAsync is about to write
AllTasksDone == pc = "running" /\ \A p \in DOMAIN packages : tpc[p] = "done"

\* the pass started from no state file or from another schema version
StartMismatch ==
    \/ startFile = Absent
    \/ (IsObject(startFile) /\ Get(startFile, "cacheBreaker") # Num(CACHE_BREAKER))

\* the pass runs on the state the last successful pass wrote, with manifests,
\* lockfiles and local-dependency contents as they were then, and every
\* package's manifest is readable
FilesAsLastGood ==
    /\ lastGood # Undefined
    /\ \A p \in Packages : ReadPackageInstallationState(p) # Malformed
    /\ startFile = lastGood.file
    /\ manifest = lastGood.manifest
    /\ shrinkwrapFile = lastGood.shrinkwrap
    /\ siblingDir = lastGood.sibling

\* exactly package p's token differs from the config of the last successful pass
OnlyTokenChanged(p) ==
    /\ FilesAsLastGood
    /\ IsObject(configFile)
    /\ IsObject(lastGood.config)
    /\ DOMAIN configFile = DOMAIN lastGood.config
    /\ p \in DOMAIN configFile
    /\ configFile[p] # lastGood.config[p]
    /\ \A q \in (DOMAIN configFile) \ {p} : configFile[q] = lastGood.config[q]

\* the entry a pass should persist for p: its fingerprint with its token
ExpectedEntry(p) ==
    JSONObject(ObjectAssign(ReadPackageInstallationState(p),
                            [cacheBreaker |-> configFile[p]]))

\* the state the pass started from records package p's current fingerprint
RecordedIsCurrent(p) == Get(Get(startFile, "packages"), p) = ExpectedEntry(p)

\* C1: a pass (force mode off) that runs on the state written by the last
\* successful pass, with config, manifests, lockfiles and local-dependency
\* contents unchanged, invokes the install for no package.  (Stated for the
\* passes whose state records every declared package's current fingerprint.)
C1_Idempotence ==
    (/\ Alive
     /\ ~forceInstallation
     /\ FilesAsLastGood
     /\ configFile = lastGood.config
     /\ \A p \in DOMAIN packages : RecordedIsCurrent(p))
        => Invoked = {}

\* C2: at most one external install invocation is active in any state.
C2_InstallMutualExclusion == Cardinality(active) <= 1

\* C2 witness: one package's install is running while another package that
\* requires install waits for the lock.
C2_Witness ==
    \E p, q \in Packages : p # q /\ p \in active /\ tpc[q] = "acquire"

\* C3: a pass that started from no state file or from a state whose
\* cacheBreaker differs from CACHE_BREAKER, and completed, invoked the install
\* exactly once for every declared package.
C3_SchemaReset ==
    (pc = "done" /\ StartMismatch) => \A p \in DOMAIN packages : invoked[p] = 1

\* C3 witness: a completed reset pass over a stale state whose recorded entry
\* for pkgB equals pkgB's current fingerprint.
C3_Witness ==
    /\ pc = "done"
    /\ startFile = StaleState
    /\ DOMAIN packages = Packages
    /\ ReadPackageInstallationState("pkgB") # Malformed
    /\ ExpectedEntry("pkgB") = StaleState.packages["pkgB"]
    /\ \A p \in Packages : invoked[p] = 1

\* C4: when exactly one package's token was changed since the last successful
\* pass and nothing else, the pass (force mode off) invokes the install for
\* that package and for no other.  (Stated for the passes whose state records
\* every other package's current fingerprint.)
C4_TokenInvalidation ==
    \A p \in Packages :
        (/\ Alive
         /\ ~forceInstallation
         /\ OnlyTokenChanged(p)
         /\ \A q \in (DOMAIN packages) \ {p} : RecordedIsCurrent(q))
            => /\ Invoked \subseteq {p}
               /\ AllTasksDone => Invoked = {p}

\* C5: after a successful pass the persisted packages are all declared.
C5_Pruning ==
    pc = "done" => DOMAIN Get(stateFile, "packages") \subseteq DOMAIN packages

\* C5 witness: a successful pass that installed nothing dropped the entries
\* of packages that are no longer declared.
C5_Witness ==
    /\ pc = "done"
    /\ Invoked = {}
    /\ IsObject(startFile)
    /\ DOMAIN Get(startFile, "packages") # {}
    /\ DOMAIN Get(stateFile, "packages") = {}

\* C6: after a successful pass, the persisted entry of every package whose
\* install was invoked is its fingerprint (dependencies,
\* unversionedDependencyChecksums, shrinkwrap) with its current token.
C6_RecordedFingerprint ==
    (pc = "done" /\ \A q \in Packages : ReadPackageInstallationState(q) # Malformed)
        => \A p \in Invoked : Get(Get(stateFile, "packages"), p) = ExpectedEntry(p)

\* C7: when a step of the pass failed, the state file after the pass is the
\* file the pass started from.
C7_NoPartialPersistence == (Ended /\ stepFailed) => stateFile = startFile

\* C8: a pass over a declared package whose manifest is missing does not
\* complete and records no entry for that package.
C8_ManifestErrorsFatal ==
    pc = "done" => \A p \in DOMAIN packages : ReadPackageDeps(p) # Malformed

\* C9: the digest readPackageChecksumAsync resolves is the same for every
\* order in which the files are emitted and in which their hashes resolve.
C9_ChecksumOrderIndependent ==
    ckDigest # Undefined => ckDigest = Hex(ReadPackageChecksum(ckDir))

\* C9 witness: a digest was resolved for files of differing contents that were
\* emitted in one order and hashed in another.
C9_Witness ==
    /\ ckDigest # Undefined
    /\ ckKeys # ckSettled
    /\ \E f, g \in FilePaths : ckDir[f] # ckDir[g]
    /\ \E i \in 1..(Len(ckKeys) - 1) :
        ReadFileChecksum(ckDir[ckKeys[i]]) > ReadFileChecksum(ckDir[ckKeys[i + 1]])

C11_CleanAbsentIsNoOp == ~cleanThrew

\* C12: a missing state file is loaded as the empty state and a missing
\* config file as the empty package set, and neither fails the pass (a pass
\* that fails then does so in a package's task); an unparsable state file or
\* config file fails the pass before any install is invoked and without a
\* write of the state file.
C12_AbsentVersusMalformed ==
    pc # "idle" =>
        /\ (startFile = Malformed \/ configFile = Malformed) =>
                /\ pc = "failed"
                /\ Invoked = {}
                /\ active = {}
                /\ writes = 0
                /\ stateFile = startFile
        /\ (startFile = Absent /\ configFile # Malformed /\ pc = "running") =>
                state = EmptyObject
        /\ (configFile = Absent /\ startFile # Malformed) =>
                /\ packages = EmptyObject
                /\ pc \in {"running", "done"}
        /\ (pc = "failed" /\ startFile # Malformed /\ configFile # Malformed) =>
                \E p \in DOMAIN packages : tpc[p] = "failed"

\* a pass has failed on an unparsable state file although packages are declared
C12_Witness ==
    /\ pc = "failed"
    /\ startFile = Malformed
    /\ DOMAIN configFile = Packages
    /\ Invoked = {}
    /\ stateFile = Malformed

\* the reference rule of the change detector applied to package p's current
\* fingerprint and its recorded entry
ReferenceRule(p) ==
    PackageNeedsUpdate(p, packages[p], Get(arg[p], "dependencies"),
                       Get(arg[p], "unversionedDependencyChecksums"),
                       Get(arg[p], "shrinkwrap"))

\* package p's task has taken the decision of updatePackageIfNeededAsync on
\* the normal path with force mode off
DecidedOnNormalPath(p) ==
    /\ Alive
    /\ ~StartMismatch
    /\ ~forceInstallation
    /\ p \in DOMAIN packages
    /\ IsObject(arg[p])
    /\ tpc[p] \in {"acquire", "exec", "done", "failed"}

\* C13: on the normal path with force mode off the decision taken by
\* updatePackageIfNeededAsync (go on to the install or not) equals the
\* reference rule applied to the current fingerprint and the recorded entry.
C13_ReferenceEquivalence ==
    \A p \in Packages :
        DecidedOnNormalPath(p) =>
            ((tpc[p] = "acquire" \/ invoked[p] > 0) <=> ReferenceRule(p))

\* C14: the step in which a package's execNpmInstallAsync settles, with
\* success or with failure, releases the install lock, and the lock is
\* released by no other step of a pass; so the lock is held exactly while an
\* install is active, and a task that has ended, with its error handed to the
\* caller or not, holds no lock.
C14_GuaranteedRelease ==
    /\ [](installLock <=> active # {})
    /\ [](\A p \in Packages : tpc[p] \in {"done", "failed"} => p \notin active)
    /\ [][\A p \in Packages :
            (tpc[p] = "exec" /\ tpc'[p] \in {"done", "failed"}) =>
                (installLock /\ ~installLock')]_vars
    /\ [][(installLock /\ ~installLock' /\ pc' # "idle") =>
            \E p \in Packages : tpc[p] = "exec" /\ tpc'[p] \in {"done", "failed"}]_vars

\* a package's install has failed, the lock is free again, and the other
\* package's task is still waiting for it
C14_Witness ==
    \E p, q \in Packages :
        /\ p # q
        /\ tpc[p] = "failed"
        /\ invoked[p] = 1
        /\ tpc[q] = "acquire"
        /\ ~installLock

\* C15: once the pass has failed (a task has thrown and installAsync has
\* rejected), no external install is started afterwards in that pass.
C15_FailureAbortsRun ==
    [][pc = "failed" => \A p \in Packages : invoked'[p] <= invoked[p]]_vars

\* C16: a pass that has written the state file has written it once, and at
\* that write every per-package task was complete: no fingerprint
\* computation pending, no install active or waiting.  (Stated for the
\* passes in which every package's fingerprint can be read.)
C16_SingleLateWrite ==
    /\ writes <= 1
    /\ (writes = 1 /\ \A p \in Packages : ReadPackageInstallationState(p) # Malformed) =>
        /\ pc = "done"
        /\ active = {}
        /\ \A p \in DOMAIN packages : tpc[p] = "done" /\ detached[p] # "pending"

\* C17: when every read and every install succeeds, then in whatever order
\* the waiters get the lock, every package whose task waits for the lock has
\* its install invoked, the pass ends with the state file written, and a
\* held lock always belongs to a running install, so no waiter waits forever.
C17_Progress ==
    /\ \A p \in Packages : (tpc[p] = "acquire") ~> (invoked[p] > 0)
    /\ (pc = "running") ~> (pc = "done" /\ writes = 1)
    /\ [](installLock => active # {})

\* both packages were waiting for the lock, one has got it and has been
\* installed, and the other has its install running
C17_Witness ==
    \E p, q \in Packages :
        /\ p # q
        /\ pc = "running"
        /\ tpc[p] = "done"
        /\ invoked[p] = 1
        /\ q \in active

\* the packages that have an entry in the state the pass started from
PriorNames ==
    IF IsObject(Get(startFile, "packages")) THEN DOMAIN Get(startFile, "packages") ELSE {}

\* package n's entry in the state file the pass started from, and now
EntryBefore(n) == Get(Get(startFile, "packages"), n)
EntryAfter(n) == Get(Get(stateFile, "packages"), n)

\* C18: after a successful pass, the entry of a declared package that had an
\* entry and whose install was not invoked is the entry it had before the
\* pass; an entry that differs from the one before the pass is either the
\* whole entry recorded for a package installed in this pass, or is gone
\* because its package is no longer declared.
C18_CarryOverFrame ==
    pc = "done" =>
        \A n \in PriorNames :
            /\ (n \in DOMAIN packages /\ n \notin Invoked) => EntryAfter(n) = EntryBefore(n)
            /\ EntryAfter(n) # EntryBefore(n) =>
                    \/ /\ n \in DOMAIN packages
                       /\ n \in Invoked
                       /\ EntryAfter(n) = JSONObject(updatedPackages[n])
                    \/ /\ n \notin DOMAIN packages
                       /\ EntryAfter(n) = Undefined

\* a successful pass has installed one package and has carried the entry of
\* the other, which it did not install, over to the new state file
C18_Witness ==
    \E n, q \in Packages :
        /\ pc = "done"
        /\ n \in PriorNames
        /\ n \in DOMAIN packages
        /\ n \notin Invoked
        /\ q \in Invoked
        /\ EntryAfter(n) = EntryBefore(n)
        /\ EntryAfter(q) # EntryBefore(q)

\* C19: filterLocalDeps never changes the working directory of the process:
\* in every reachable state of a pass it is the directory the pass started in.
C19_WorkingDirectoryIsolation == cwd = Root

\* C20, as claimed: in force mode no package's node_modules is being removed
\* while another package's install is active.
C20_RemovalSerializedWithInstalls ==
    \A p \in removing : active \ {p} = {}

\* C20, amended: the removal of a package's node_modules is over before that
\* package's own install is invoked; it is not kept apart from the installs
\* of other packages.
C20_RemovalBeforeOwnInstall ==
    \A p \in removing : p \notin active /\ invoked[p] = 0

\* one package's node_modules is being removed while the other package's
\* install is running
C20_Witness ==
    \E p, q \in Packages :
        /\ p # q
        /\ forceInstallation
        /\ p \in removing
        /\ q \in active
====
